---- MODULE Spec2Model ----
(***************************************************************************)
(* A model of the NodeBB Python client: configuration validation, the      *)
(* transport wrapper (HTTPClient), the response normalizer, the error      *)
(* classifier and the CSRF-token cache of the auth component.              *)
(*                                                                         *)
(* Python values (None, str, int, list, dict) are records tagged by t.     *)
(* A dict's v is a function from its keys to values.  A response body that *)
(* is not JSON is [t |-> "text", v |-> tokens]; the substring tests of the *)
(* code ("x" in text) are membership tests on the token sequence.          *)
(***************************************************************************)
EXTENDS Integers, Sequences, FiniteSets, TLC

VARIABLES config, client, http, csrf_token, recent, last,
          warned, scope, released, callers, written

vars == <<config, client, http, csrf_token, recent, last,
          warned, scope, released, callers, written>>

\* Largest acting uid a configuration may carry.
MaxUid == 1

\* Largest post id used in an endpoint path.
MaxPid == 1

\* Number of threads that call get_csrf_token on one client at once.
NumCallers == 3

-----------------------------------------------------------------------------
(* Python values *)

PyNone == [t |-> "None"]

PyStr(s) == [t |-> "str", v |-> s]

PyInt(n) == [t |-> "int", v |-> n]

PyList(q) == [t |-> "list", v |-> q]

PyDict(f) == [t |-> "dict", v |-> f]

PyBool(b) == [t |-> "bool", v |-> b]

EmptyDict == PyDict([k \in {} |-> PyNone])

\* bool(v) of a Python value
Truthy(v) ==
    CASE v.t = "None" -> FALSE
      [] v.t = "str"  -> v.v # ""
      [] v.t = "int"  -> v.v # 0
      [] v.t = "list" -> v.v # <<>>
      [] v.t = "dict" -> DOMAIN v.v # {}
      [] v.t = "bool" -> v.v
      [] OTHER        -> TRUE

\* isinstance(v, dict)
IsDict(v) == v.t = "dict"

\* key in d
HasKey(d, key) == key \in DOMAIN d.v

\* d.get(key, default)
DictGet(d, key, default) == IF HasKey(d, key) THEN d.v[key] ELSE default

\* d[key] = value on a copy of d
DictSet(d, key, value) ==
    PyDict([k \in DOMAIN d.v \cup {key} |-> IF k = key THEN value ELSE d.v[k]])

\* "needle in haystack" on a tokenised string
Contains(haystack, needle) == \E i \in 1..Len(haystack) : haystack[i] = needle

-----------------------------------------------------------------------------
(* Outcomes of a call: a returned value or a raised exception *)

Return(value) == [kind |-> "return", value |-> value]

\* NodeBBError.__init__(message)
RaiseError(exc, message) == [kind |-> "raise", exc |-> exc, message |-> message]

\* ValidationError(message, errors): self.errors = errors or []
ValidationError(message, errors) ==
    [kind |-> "raise", exc |-> "ValidationError", message |-> message,
     errors |-> IF Truthy(errors) THEN errors ELSE PyList(<<>>)]

\* APIError(message, status_code)
APIError(message, status_code) ==
    [kind |-> "raise", exc |-> "APIError", message |-> message,
     status_code |-> status_code]

\* The classes derived from NodeBBError
NodeBBError ==
    {"AuthenticationError", "PrivilegeError", "ResourceNotFoundError",
     "RateLimitError", "ValidationError", "APIError", "NetworkError",
     "ConfigurationError"}

\* The classes derived from httpx.RequestError that a connection raises
RequestError == {"httpx.ConnectError", "httpx.ReadTimeout"}

-----------------------------------------------------------------------------
(* Configuration *)

BaseUrl == "https://forum.example.com"

Configs ==
    {c \in [base_url     : {"", BaseUrl},
            username     : {PyNone, PyStr("alice")},
            password     : {PyNone, PyStr("pw")},
            user_token   : {PyNone, PyStr("utok")},
            master_token : {PyNone, PyStr("mtok")},
            uid          : {PyNone} \cup {PyInt(n) : n \in 1..MaxUid}] :
        c.username = PyNone => c.password = PyNone}

auth_type(cfg) ==
    IF Truthy(cfg.master_token) THEN "master"
    ELSE IF Truthy(cfg.user_token) THEN "user"
    ELSE "none"

validate(cfg) ==
    IF cfg.base_url = ""
    THEN RaiseError("ValueError", "base_url is required")
    ELSE IF Truthy(cfg.master_token) /\ cfg.uid = PyNone
    THEN RaiseError("ValueError", "uid is required when using master_token")
    ELSE Return(PyNone)

-----------------------------------------------------------------------------
(* utils.py *)

NoHeaders == [k \in {} |-> ""]

\* build_headers with the two tokens tried in the other order
build_headers_master_first(cfg) ==
    LET headers == ("Accept" :> "application/json")
                   @@ ("Content-Type" :> "application/json")
                   @@ ("User-Agent" :> "NodeBB-Python-Client/1.0.0")
    IN  IF Truthy(cfg.master_token)
        THEN headers @@ ("Authorization" :> ("Bearer " \o cfg.master_token.v))
        ELSE IF Truthy(cfg.user_token)
        THEN headers @@ ("Authorization" :> ("Bearer " \o cfg.user_token.v))
        ELSE headers

build_headers(cfg) ==
    LET headers == ("Accept" :> "application/json")
                   @@ ("Content-Type" :> "application/json")
                   @@ ("User-Agent" :> "NodeBB-Python-Client/1.0.0")
    IN  IF Truthy(cfg.user_token)
        THEN headers @@ ("Authorization" :> ("Bearer " \o cfg.user_token.v))
        ELSE IF Truthy(cfg.master_token)
        THEN headers @@ ("Authorization" :> ("Bearer " \o cfg.master_token.v))
        ELSE headers

\* body: the dict handed to the HTTP library; arg: the caller's object
\* as it is after the call.
prepare_request_body(data, cfg) ==
    LET d == IF data = PyNone THEN EmptyDict ELSE data
    IN  IF Truthy(cfg.master_token) /\ cfg.uid # PyNone
        THEN [body |-> DictSet(d, "_uid", cfg.uid), arg |-> data]
        ELSE [body |-> d, arg |-> data]

\* parse_response that hands every body back as it came
parse_response_as_is(response_data) == Return(response_data)

\* utils.py:109-138
parse_response(response_data) ==
    IF ~IsDict(response_data)
    THEN Return(response_data)
    ELSE IF HasKey(response_data, "status")
    THEN LET status == DictGet(response_data, "status", EmptyDict)
         IN  IF IsDict(status)
             THEN IF DictGet(status, "code", PyNone) # PyStr("ok")
                  THEN Return(PyDict([error  |-> DictGet(status, "message",
                                                       PyStr("Unknown error")),
                                    status |-> status]))
                  ELSE Return(DictGet(response_data, "response", EmptyDict))
             ELSE Return(response_data)
    ELSE Return(response_data)

-----------------------------------------------------------------------------
(* What the server, or the network, answers to one request *)

StatusCodes == {200, 400, 401, 403, 404, 429}

ContentJson == <<"application/json", "; charset=utf-8">>

ContentHtml == <<"text/html", "; charset=utf-8">>

Text(tokens) == [t |-> "text", v |-> tokens]

InvalidCredentialsMarker == "[[error:invalid-login-credentials]]"

Envelope(status) == PyDict([status |-> status])

EnvelopeWith(status, response) == PyDict([status |-> status, response |-> response])

Html == Text(<<"<html>", "</html>">>)

HtmlInvalidCredentials == Text(<<"<html>", InvalidCredentialsMarker, "</html>">>)

Post1 == PyDict([pid |-> PyInt(MaxPid)])

JsonBodies ==
    {PyInt(5),
     Post1,
     PyDict([csrf_token |-> PyStr("tokA")]),
     PyDict([csrf_token |-> PyStr("")]),
     EnvelopeWith(PyDict([code |-> PyStr("ok")]), Post1),
     EnvelopeWith(PyDict([code |-> PyStr("ok")]),
                  PyDict([csrf_token |-> PyStr("tokB")])),
     Envelope(PyDict([code |-> PyStr("ok")])),
     Envelope(PyDict([code |-> PyStr("bad-params"),
                      params |-> PyList(<<PyStr("title")>>)])),
     Envelope(PyDict([code |-> PyStr("internal-error"), message |-> PyStr("boom")])),
     Envelope(PyDict([code |-> PyStr("internal-error")])),
     Envelope(PyStr("ok"))}

Response(status_code, content_type, body) ==
    [ok |-> TRUE, status_code |-> status_code, content_type |-> content_type,
     body |-> body]

ConnectionErrors == {[ok |-> FALSE, err |-> e] : e \in RequestError}

\* What the JSON API answers: every status with every JSON body and with a
\* body that is not JSON; or the connection fails.
NetReplies ==
    {Response(s, ContentJson, b) : s \in StatusCodes, b \in JsonBodies}
    \cup {Response(s, ContentHtml, Html) : s \in StatusCodes}
    \cup ConnectionErrors

\* The answers to GET /api/config that operations made of several requests
\* are run against: one for each way the token fetch can end.
ConfigReplies ==
    {Response(200, ContentJson, PyDict([csrf_token |-> PyStr("tokA")])),
     Response(200, ContentJson,
              EnvelopeWith(PyDict([code |-> PyStr("ok")]),
                           PyDict([csrf_token |-> PyStr("tokB")]))),
     Response(200, ContentJson, Post1),
     Response(401, ContentJson, Post1),
     [ok |-> FALSE, err |-> "httpx.ConnectError"]}

\* The answers to POST /login: HTML with and without the marker, JSON, and
\* a content type that does not match the body.
LoginReplies ==
    {Response(s, ContentHtml, b) :
        s \in {200, 401, 403}, b \in {Html, HtmlInvalidCredentials, Post1}}
    \cup {Response(s, ContentJson, b) :
        s \in {200, 401, 403}, b \in {Post1, HtmlInvalidCredentials}}
    \cup {[ok |-> FALSE, err |-> "httpx.ConnectError"]}

\* The answers to the POST of register, register_complete and logout
FormReplies ==
    {Response(s, ContentHtml, Html) : s \in {200, 403}}
    \cup {Response(s, ContentJson, b) :
            s \in {200, 403},
            b \in {Html, PyInt(5), PyDict([next |-> PyStr("/register/complete")]),
                   Envelope(PyDict([code |-> PyStr("internal-error"),
                                    message |-> PyStr("boom")]))}}
    \cup {[ok |-> FALSE, err |-> "httpx.ConnectError"]}

\* The answers to the POST of create_topic
WriteReplies ==
    {Response(s, ContentJson, b) :
        s \in StatusCodes,
        b \in {Post1, EnvelopeWith(PyDict([code |-> PyStr("ok")]), Post1),
               Envelope(PyDict([code |-> PyStr("internal-error"),
                                message |-> PyStr("boom")]))}}
    \cup {Response(s, ContentHtml, Html) : s \in StatusCodes}
    \cup {[ok |-> FALSE, err |-> "httpx.ConnectError"]}

\* response.json()
json(response) ==
    IF response.body.t = "text"
    THEN RaiseError("JSONDecodeError", "Expecting value")
    ELSE Return(response.body)

\* response.text: the JSON bodies of the model hold no marker
text(response) ==
    IF response.body.t = "text" THEN response.body.v ELSE <<"json">>

-----------------------------------------------------------------------------
(* client.py: HTTPClient.  An operator that uses the result of another
   more than once takes it as a parameter. *)

Pass == [kind |-> "pass"]

_make_url(base_url, endpoint) == base_url \o endpoint

\* client.py:96-106, for a body that response.json() has decoded
raise_for_body(result, status_code) ==
    IF IsDict(result) /\ HasKey(result, "status")
    THEN IF ~IsDict(result.v["status"])
         THEN RaiseError("AttributeError", "object has no attribute 'get'")
         ELSE IF DictGet(result.v["status"], "code", PyNone) = PyStr("bad-params")
         THEN ValidationError("Invalid parameters",
                              DictGet(result.v["status"], "params", PyList(<<>>)))
         ELSE APIError(DictGet(result.v["status"], "message", PyStr("API error")).v,
                       PyInt(status_code))
    ELSE Pass

\* client.py:93-106: the try block
try_error_body(parsed, status_code) ==
    IF parsed.kind = "raise" THEN parsed
    ELSE raise_for_body(parsed.value, status_code)

\* client.py:107-111: except Exception
except_Exception(inner, status_code) ==
    IF inner.kind = "raise"
    THEN APIError("API error (" \o ToString(status_code) \o ")", PyInt(status_code))
    ELSE Pass

\* the branch "elif response.status_code >= 400" of _handle_response
parse_error_response(response) ==
    except_Exception(try_error_body(json(response), response.status_code),
                     response.status_code)

\* check_status without the branch for status 429
check_status_no_429(response, endpoint) ==
    IF response.status_code = 401
    THEN RaiseError("AuthenticationError", "Invalid or missing authentication token")
    ELSE IF response.status_code = 403
    THEN RaiseError("PrivilegeError", "Insufficient privileges for this operation")
    ELSE IF response.status_code = 404
    THEN RaiseError("ResourceNotFoundError", "Resource not found: " \o endpoint)
    ELSE IF response.status_code >= 400
    THEN parse_error_response(response)
    ELSE Pass

\* client.py:83-111: the if/elif chain on the status code
check_status(response, endpoint) ==
    IF response.status_code = 401
    THEN RaiseError("AuthenticationError", "Invalid or missing authentication token")
    ELSE IF response.status_code = 403
    THEN RaiseError("PrivilegeError", "Insufficient privileges for this operation")
    ELSE IF response.status_code = 404
    THEN RaiseError("ResourceNotFoundError", "Resource not found: " \o endpoint)
    ELSE IF response.status_code = 429
    THEN RaiseError("RateLimitError", "Rate limit exceeded")
    ELSE IF response.status_code >= 400
    THEN parse_error_response(response)
    ELSE Pass

\* client.py:113-115: result = response.json(); return parse_response(result)
parse_json(parsed) ==
    IF parsed.kind = "raise" THEN parsed ELSE parse_response(parsed.value)

\* client.py:81-115: the body of the outer try
try_handle(checked, response) ==
    IF checked.kind = "raise" THEN checked ELSE parse_json(json(response))

\* client.py:117-122: the except clauses of the outer try
except_handle(body) ==
    IF body.kind = "raise" /\ body.exc = "JSONDecodeError"
    THEN APIError("Invalid JSON response: " \o body.message, PyNone)
    ELSE IF body.kind = "raise" /\ body.exc \in RequestError
    THEN RaiseError("NetworkError", "Request error: " \o body.message)
    ELSE body

_handle_response(response, endpoint) ==
    except_handle(try_handle(check_status(response, endpoint), response))

Request(method, url, headers, params, body, form, files) ==
    [method |-> method, url |-> url, headers |-> headers, params |-> params,
     json |-> body, data |-> form, files |-> files]

\* self.client.<verb>(...): a connection-level error is raised by the HTTP
\* library, otherwise the response is returned.
send(reply) ==
    IF reply.ok THEN Return(reply) ELSE RaiseError(reply.err, "connection failed")

\* return self._handle_response(response, endpoint), reached only when the
\* request did not raise
handle_sent(sending, endpoint) ==
    IF sending.kind = "raise" THEN sending
    ELSE _handle_response(sending.value, endpoint)

\* One request of a transport verb; arg is the caller's argument object as
\* it is after the call.
exchange(request, reply, endpoint, arg) ==
    [sent |-> <<request>>, net |-> <<reply>>, arg |-> arg,
     out |-> handle_sent(send(reply), endpoint)]

get(h, endpoint, params, reply) ==
    exchange(Request("GET", _make_url(h.base_url, endpoint), h.headers,
                     params, PyNone, PyNone, PyNone),
             reply, endpoint, params)

\* the request of post, put and delete that carries a prepared JSON body
json_request(method, h, endpoint, prepared) ==
    Request(method, _make_url(h.base_url, endpoint), h.headers,
            PyNone, prepared.body, PyNone, PyNone)

\* post, put and delete with a JSON body
exchange_json(method, h, endpoint, prepared, reply) ==
    exchange(json_request(method, h, endpoint, prepared), reply, endpoint,
             prepared.arg)

\* body and request of post: the prepared JSON body, or the files alone
post_request(h, endpoint, prepared, files) ==
    IF ~Truthy(files)
    THEN json_request("POST", h, endpoint, prepared)
    ELSE Request("POST", _make_url(h.base_url, endpoint), h.headers,
                 PyNone, PyNone, PyNone, files)

post(h, endpoint, data, files, reply) ==
    exchange(post_request(h, endpoint, prepare_request_body(data, h.config), files),
             reply, endpoint, data)

put(h, endpoint, data, reply) ==
    exchange_json("PUT", h, endpoint, prepare_request_body(data, h.config), reply)

delete(h, endpoint, data, reply) ==
    exchange_json("DELETE", h, endpoint, prepare_request_body(data, h.config), reply)

\* HTTPClient.__init__
HTTPClient(cfg) ==
    [config |-> cfg, headers |-> build_headers(cfg), base_url |-> cfg.base_url]

-----------------------------------------------------------------------------
(* api/auth.py: AuthAPI *)

\* auth.py:65-71 with the token stored nowhere
store_token_not_stored(cache, r) ==
    IF r.out.kind = "raise"
    THEN [sent |-> r.sent, net |-> r.net, out |-> r.out, cache |-> cache]
    ELSE IF IsDict(r.out.value) /\ HasKey(r.out.value, "csrf_token")
    THEN [sent |-> r.sent, net |-> r.net,
          out |-> Return(r.out.value.v["csrf_token"]), cache |-> cache]
    ELSE [sent |-> r.sent, net |-> r.net, out |-> Return(PyStr("")),
          cache |-> cache]

\* auth.py:64-71: r is the outcome of self._client.get("/api/config")
store_token(cache, r) ==
    IF r.out.kind = "raise"
    THEN [sent |-> r.sent, net |-> r.net, out |-> r.out, cache |-> cache]
    ELSE IF IsDict(r.out.value) /\ HasKey(r.out.value, "csrf_token")
    THEN [sent |-> r.sent, net |-> r.net,
          out |-> Return(r.out.value.v["csrf_token"]),
          cache |-> r.out.value.v["csrf_token"]]
    ELSE [sent |-> r.sent, net |-> r.net, out |-> Return(PyStr("")),
          cache |-> cache]

\* get_csrf_token without the test of the cache at auth.py:61
get_csrf_token_always_fetches(cache, h, reply) ==
    store_token(cache, get(h, "/api/config", PyNone, reply))

\* cache is self._csrf_token before the call; the result carries it after.
get_csrf_token(cache, h, reply) ==
    IF Truthy(cache)
    THEN [sent |-> <<>>, net |-> <<>>, out |-> Return(cache), cache |-> cache]
    ELSE store_token(cache, get(h, "/api/config", PyNone, reply))

\* the x-csrf-token header that login adds when the token is not empty
csrf_header(token) ==
    IF Truthy(token) THEN "x-csrf-token" :> token.v ELSE NoHeaders

\* auth.py:195-202: the form fields of login
login_data(username, password, token, remember) ==
    IF remember
    THEN PyDict([username |-> username, password |-> password,
                 csrf_token |-> token, remember |-> PyStr("on")])
    ELSE PyDict([username |-> username, password |-> password,
                 csrf_token |-> token])

\* auth.py:195-216: the request of login
login_request(h, username, password, token, remember) ==
    Request("POST", _make_url(h.config.base_url, "/login"),
            ("Content-Type" :> "application/x-www-form-urlencoded")
            @@ csrf_header(token) @@ h.headers,
            PyNone, PyNone, login_data(username, password, token, remember), PyNone)

\* auth.py:218-238: what login makes of the response
login_response(response) ==
    IF response.status_code >= 400
    THEN IF Contains(response.content_type, "text/html")
            /\ Contains(text(response), InvalidCredentialsMarker)
         THEN ValidationError("Invalid username or password", PyNone)
         ELSE ValidationError("Login failed with status "
                              \o ToString(response.status_code), PyNone)
    ELSE IF Contains(response.content_type, "application/json")
            /\ json(response).kind = "return"
    THEN json(response)
    ELSE Return(PyDict([next |-> PyStr("/"), status |-> PyStr("ok"),
                        message |-> PyStr("Login successful")]))

\* the outcome of a request made through the HTTP library itself
direct(sending, outcome) == IF sending.kind = "raise" THEN sending ELSE outcome

\* auth.py:195-238: tok is the outcome of self.get_csrf_token()
login_with(tok, h, username, password, remember, reply2) ==
    IF tok.out.kind = "raise"
    THEN tok
    ELSE [sent |-> tok.sent
                   \o <<login_request(h, username, password, tok.out.value, remember)>>,
          net |-> tok.net \o <<reply2>>,
          out |-> direct(send(reply2), login_response(reply2)),
          cache |-> tok.cache]

login(cache, h, username, password, remember, reply1, reply2) ==
    login_with(get_csrf_token(cache, h, reply1), h, username, password, remember,
               reply2)

\* auth.py:108-135: the request of register (no email, no invite token)
register_request(h, username, password, token) ==
    Request("POST", _make_url(h.config.base_url, "/register"),
            ("Content-Type" :> "application/x-www-form-urlencoded")
            @@ csrf_header(token) @@ h.headers,
            PyNone, PyNone,
            PyDict(("password-confirm" :> password)
                   @@ [username |-> username, password |-> password,
                       csrf_token |-> token]),
            PyNone)

\* auth.py:154-162: the JSON body of a successful registration
register_json(parsed) ==
    IF parsed.kind = "raise"
    THEN Return(PyDict([next |-> PyStr("/"), status |-> PyStr("ok"),
                        message |-> PyStr("Registration successful"),
                        raw_response |-> PyStr(parsed.message)]))
    ELSE IF ~IsDict(parsed.value)
    THEN Return(PyDict([next |-> PyStr("/"), status |-> PyStr("ok"),
                        message |-> PyStr("Registration successful"),
                        raw_response |-> PyStr("object has no attribute 'get'")]))
    ELSE IF DictGet(parsed.value, "next", PyNone) = PyStr("/register/complete")
    THEN Return(PyDict([next |-> PyStr("/register/complete"), status |-> PyStr("ok"),
                        message |-> PyStr("Registration pending completion")]))
    ELSE parsed

\* auth.py:137-164: what register makes of the response; the APIError that
\* lines 142-145 raise for a body with a status is swallowed by line 146.
register_response(response) ==
    IF response.status_code >= 400
    THEN APIError("Registration failed with status "
                  \o ToString(response.status_code), PyNone)
    ELSE IF Contains(response.content_type, "application/json")
    THEN register_json(json(response))
    ELSE Return(PyDict([next |-> PyStr("/"), status |-> PyStr("ok"),
                        message |-> PyStr("Registration successful")]))

\* auth.py:106-164: tok is the outcome of self.get_csrf_token()
register_with(tok, h, username, password, reply2) ==
    IF tok.out.kind = "raise"
    THEN tok
    ELSE [sent |-> tok.sent
                   \o <<register_request(h, username, password, tok.out.value)>>,
          net |-> tok.net \o <<reply2>>,
          out |-> direct(send(reply2), register_response(reply2)),
          cache |-> tok.cache]

register(cache, h, username, password, reply1, reply2) ==
    register_with(get_csrf_token(cache, h, reply1), h, username, password, reply2)

\* the form that register_complete and logout post
token_form(token) == PyDict([csrf_token |-> token])

\* auth.py:271-281: what register_complete makes of the response
register_complete_response(response) ==
    IF response.status_code >= 400
    THEN RaiseError("NetworkError", "Registration completion failed with status "
                                    \o ToString(response.status_code))
    ELSE IF Contains(response.content_type, "application/json")
            /\ json(response).kind = "return"
    THEN json(response)
    ELSE Return(PyDict([status |-> PyStr("ok"),
                        message |-> PyStr("Registration complete")]))

\* auth.py:312-324: what logout makes of the response
logout_response(response) ==
    IF Contains(response.content_type, "application/json")
    THEN parse_json(json(response))
    ELSE IF response.status_code >= 400
    THEN APIError("Logout failed with status " \o ToString(response.status_code),
                  PyNone)
    ELSE Return(PyDict([next |-> PyStr("/"), status |-> PyStr("ok"),
                        message |-> PyStr("Logout successful")]))

\* auth.py:257-269: the request of register_complete
register_complete_request(h, token) ==
    Request("POST", _make_url(h.config.base_url, "/register/complete"),
            ("Content-Type" :> "application/x-www-form-urlencoded")
            @@ csrf_header(token) @@ h.headers,
            PyNone, PyNone, token_form(token), PyNone)

\* auth.py:255-281: tok is the outcome of self.get_csrf_token()
register_complete_with(tok, h, reply2) ==
    IF tok.out.kind = "raise"
    THEN tok
    ELSE [sent |-> tok.sent \o <<register_complete_request(h, tok.out.value)>>,
          net |-> tok.net \o <<reply2>>,
          out |-> direct(send(reply2), register_complete_response(reply2)),
          cache |-> tok.cache]

register_complete(cache, h, reply1, reply2) ==
    register_complete_with(get_csrf_token(cache, h, reply1), h, reply2)

\* auth.py:300-310: the request of logout
logout_request(h, token) ==
    Request("POST", _make_url(h.config.base_url, "/logout"),
            csrf_header(token) @@ h.headers,
            PyNone, PyNone, token_form(token), PyNone)

\* auth.py:298-324: tok is the outcome of self.get_csrf_token()
logout_with(tok, h, reply2) ==
    IF tok.out.kind = "raise"
    THEN tok
    ELSE [sent |-> tok.sent \o <<logout_request(h, tok.out.value)>>,
          net |-> tok.net \o <<reply2>>,
          out |-> direct(send(reply2), logout_response(reply2)),
          cache |-> tok.cache]

logout(cache, h, reply1, reply2) ==
    logout_with(get_csrf_token(cache, h, reply1), h, reply2)

-----------------------------------------------------------------------------
(* api/write.py: WriteAPI *)

\* write.py:86-93: the body of create_topic
topic_data(cid, title, content, tags, timestamp) ==
    IF Truthy(tags) /\ timestamp # PyNone
    THEN PyDict([cid |-> cid, title |-> title, content |-> content,
                 tags |-> tags, timestamp |-> timestamp])
    ELSE IF Truthy(tags)
    THEN PyDict([cid |-> cid, title |-> title, content |-> content, tags |-> tags])
    ELSE IF timestamp # PyNone
    THEN PyDict([cid |-> cid, title |-> title, content |-> content,
                 timestamp |-> timestamp])
    ELSE PyDict([cid |-> cid, title |-> title, content |-> content])

\* write.py:96-103: the request of create_topic
topic_request(h, data, token) ==
    Request("POST", _make_url(h.config.base_url, "/api/v3/topics/"),
            ("Content-Type" :> "application/json") @@ ("x-csrf-token" :> token.v)
            @@ h.headers,
            PyNone, data, PyNone, PyNone)

\* write.py:109-113: the response field of the body, or the body
response_field(parsed) ==
    IF parsed.kind = "raise" THEN parsed
    ELSE IF IsDict(parsed.value) /\ HasKey(parsed.value, "response")
    THEN Return(parsed.value.v["response"])
    ELSE parsed

\* write.py:105-113: what create_topic makes of the response
topic_response(response) ==
    IF response.status_code >= 400
    THEN APIError("Failed to create topic: " \o ToString(response.status_code),
                  PyNone)
    ELSE response_field(json(response))

\* write.py:86-113: tok is the outcome of auth.get_csrf_token()
create_topic_with(tok, h, data, reply2) ==
    IF tok.out.kind = "raise"
    THEN [sent |-> tok.sent, net |-> tok.net, out |-> tok.out]
    ELSE [sent |-> tok.sent \o <<topic_request(h, data, tok.out.value)>>,
          net |-> tok.net \o <<reply2>>,
          out |-> direct(send(reply2), topic_response(reply2))]

\* A new AuthAPI, whose cache is empty, fetches the token; the topic is
\* posted through the HTTP library itself, not through HTTPClient.post.
create_topic(h, cid, title, content, tags, timestamp, reply1, reply2) ==
    create_topic_with(get_csrf_token(PyNone, h, reply1), h,
                      topic_data(cid, title, content, tags, timestamp), reply2)

-----------------------------------------------------------------------------
(* client.py: NodeBBClient *)

\* the auto-login without the try of client.py:246-251: a failure of the
\* login ends the constructor
auto_login_raises(h, l) ==
    [built |-> l.out.kind = "return",
     out |-> IF l.out.kind = "raise" THEN l.out ELSE Return(PyNone),
     sent |-> l.sent, net |-> l.net, warned |-> FALSE, http |-> h,
     cache |-> l.cache]

\* client.py:244-251: l is the outcome of self.login(...); a failure is
\* only warned about.
auto_login(h, l) ==
    [built |-> TRUE, out |-> Return(PyNone), sent |-> l.sent, net |-> l.net,
     warned |-> l.out.kind = "raise", http |-> h, cache |-> l.cache]

\* client.py:235-251: the client of a valid configuration
build_client(cfg, h, reply1, reply2) ==
    IF Truthy(cfg.username) /\ Truthy(cfg.password)
    THEN auto_login(h, login(PyNone, h, cfg.username, cfg.password, FALSE,
                             reply1, reply2))
    ELSE [built |-> TRUE, out |-> Return(PyNone), sent |-> <<>>, net |-> <<>>,
          warned |-> FALSE, http |-> h, cache |-> PyNone]

\* client.py:233: checked is the outcome of config.validate()
validated(checked, cfg, reply1, reply2) ==
    IF checked.kind = "raise"
    THEN [built |-> FALSE, out |-> checked, sent |-> <<>>, net |-> <<>>,
          warned |-> FALSE, http |-> PyNone, cache |-> PyNone]
    ELSE build_client(cfg, HTTPClient(cfg), reply1, reply2)

\* NodeBBClient.__init__
NodeBBClient(cfg, reply1, reply2) ==
    validated(validate(cfg), cfg, reply1, reply2)

\* client.py:253-255 and 190-192: NodeBBClient.close calls HTTPClient.close,
\* which calls close on the client of the HTTP library; that releases the
\* connection of an open client and does nothing on a closed one.
close(state, count) ==
    IF state = "closed"
    THEN [client |-> "closed", released |-> count]
    ELSE [client |-> "closed", released |-> count + 1]

\* __exit__ that leaves the client as it is
exit_without_close(state, count) == [client |-> state, released |-> count]

\* client.py:261-263: NodeBBClient.__exit__, whatever ended the block
__exit__(state, count) == close(state, count)

-----------------------------------------------------------------------------
(* tools.py: the tool descriptors, ToolExecutor and get_forum_updates *)

\* the descriptor list without the descriptor of the utility tool
get_tool_definitions_without_updates ==
    <<"get_notifications",
      "get_unread_count",
      "get_unread_topics",
      "get_recent_posts",
      "get_topic",
      "get_categories",
      "get_category",
      "get_user",
      "get_user_by_username",
      "search_users",
      "get_config",
      "get_post",
      "create_topic",
      "create_reply",
      "edit_post",
      "delete_post",
      "delete_topic",
      "vote_post",
      "unvote_post",
      "bookmark_post",
      "unbookmark_post",
      "follow_topic",
      "unfollow_topic",
      "mark_topic_read",
      "mark_topic_unread",
      "set_topic_state",
      "pin_topic",
      "unpin_topic",
      "update_topic_tags",
      "add_topic_tag",
      "remove_topic_tags",
      "move_post",
      "restore_post",
      "soft_delete_post",
      "get_post_replies",
      "get_chats",
      "create_chat_room",
      "send_chat_message",
      "get_chat_messages",
      "rename_room",
      "get_chat_room_detail",
      "add_users_to_chat",
      "leave_chat_room",
      "upload_image",
      "upload_file">>

\* the names of the descriptors that get_tool_definitions returns, in order
get_tool_definitions ==
    <<"get_notifications",
      "get_unread_count",
      "get_unread_topics",
      "get_recent_posts",
      "get_topic",
      "get_categories",
      "get_category",
      "get_user",
      "get_user_by_username",
      "search_users",
      "get_config",
      "get_post",
      "create_topic",
      "create_reply",
      "edit_post",
      "delete_post",
      "delete_topic",
      "vote_post",
      "unvote_post",
      "bookmark_post",
      "unbookmark_post",
      "follow_topic",
      "unfollow_topic",
      "mark_topic_read",
      "mark_topic_unread",
      "set_topic_state",
      "pin_topic",
      "unpin_topic",
      "update_topic_tags",
      "add_topic_tag",
      "remove_topic_tags",
      "move_post",
      "restore_post",
      "soft_delete_post",
      "get_post_replies",
      "get_chats",
      "create_chat_room",
      "send_chat_message",
      "get_chat_messages",
      "rename_room",
      "get_chat_room_detail",
      "add_users_to_chat",
      "leave_chat_room",
      "upload_image",
      "upload_file",
      "get_forum_updates">>

\* tools.py:15-986: the "parameters" schema of each descriptor, its declared
\* property names and the names it lists as required
parameters ==
    ("get_notifications" :> [properties |-> {"filter", "page"},
        required |-> {}])
    @@ ("get_unread_count" :> [properties |-> {},
        required |-> {}])
    @@ ("get_unread_topics" :> [properties |-> {"start", "per_page", "filter"},
        required |-> {}])
    @@ ("get_recent_posts" :> [properties |-> {"term", "page"},
        required |-> {}])
    @@ ("get_topic" :> [properties |-> {"tid", "slug", "post_index"},
        required |-> {"tid"}])
    @@ ("get_categories" :> [properties |-> {},
        required |-> {}])
    @@ ("get_category" :> [properties |-> {"cid", "slug", "topic_index"},
        required |-> {"cid"}])
    @@ ("get_user" :> [properties |-> {"uid"},
        required |-> {"uid"}])
    @@ ("get_user_by_username" :> [properties |-> {"userslug"},
        required |-> {"userslug"}])
    @@ ("search_users" :> [properties |-> {"query", "section", "page"},
        required |-> {}])
    @@ ("get_config" :> [properties |-> {},
        required |-> {}])
    @@ ("get_post" :> [properties |-> {"pid"},
        required |-> {"pid"}])
    @@ ("create_topic" :> [properties |-> {"cid", "title", "content", "tags"},
        required |-> {"cid", "title", "content"}])
    @@ ("create_reply" :> [properties |-> {"tid", "content", "to_pid"},
        required |-> {"tid", "content"}])
    @@ ("edit_post" :> [properties |-> {"pid", "content", "title"},
        required |-> {"pid", "content"}])
    @@ ("delete_post" :> [properties |-> {"pid"},
        required |-> {"pid"}])
    @@ ("delete_topic" :> [properties |-> {"tid"},
        required |-> {"tid"}])
    @@ ("vote_post" :> [properties |-> {"pid", "delta"},
        required |-> {"pid"}])
    @@ ("unvote_post" :> [properties |-> {"pid"},
        required |-> {"pid"}])
    @@ ("bookmark_post" :> [properties |-> {"pid"},
        required |-> {"pid"}])
    @@ ("unbookmark_post" :> [properties |-> {"pid"},
        required |-> {"pid"}])
    @@ ("follow_topic" :> [properties |-> {"tid"},
        required |-> {"tid"}])
    @@ ("unfollow_topic" :> [properties |-> {"tid"},
        required |-> {"tid"}])
    @@ ("mark_topic_read" :> [properties |-> {"tid"},
        required |-> {"tid"}])
    @@ ("mark_topic_unread" :> [properties |-> {"tid"},
        required |-> {"tid"}])
    @@ ("set_topic_state" :> [properties |-> {"tid", "state"},
        required |-> {"tid", "state"}])
    @@ ("pin_topic" :> [properties |-> {"tid", "expiry"},
        required |-> {"tid"}])
    @@ ("unpin_topic" :> [properties |-> {"tid"},
        required |-> {"tid"}])
    @@ ("update_topic_tags" :> [properties |-> {"tid", "tags"},
        required |-> {"tid", "tags"}])
    @@ ("add_topic_tag" :> [properties |-> {"tid", "tag"},
        required |-> {"tid", "tag"}])
    @@ ("remove_topic_tags" :> [properties |-> {"tid"},
        required |-> {"tid"}])
    @@ ("move_post" :> [properties |-> {"pid", "tid"},
        required |-> {"pid", "tid"}])
    @@ ("restore_post" :> [properties |-> {"pid", "tid"},
        required |-> {"pid"}])
    @@ ("soft_delete_post" :> [properties |-> {"pid"},
        required |-> {"pid"}])
    @@ ("get_post_replies" :> [properties |-> {"pid", "start", "direction", "per_page"},
        required |-> {"pid"}])
    @@ ("get_chats" :> [properties |-> {"start", "per_page"},
        required |-> {}])
    @@ ("create_chat_room" :> [properties |-> {"uids"},
        required |-> {"uids"}])
    @@ ("send_chat_message" :> [properties |-> {"room_id", "message"},
        required |-> {"room_id", "message"}])
    @@ ("get_chat_messages" :> [properties |-> {"room_id", "start", "count", "uid"},
        required |-> {"room_id"}])
    @@ ("rename_room" :> [properties |-> {"room_id", "name"},
        required |-> {"room_id", "name"}])
    @@ ("get_chat_room_detail" :> [properties |-> {"room_id"},
        required |-> {"room_id"}])
    @@ ("add_users_to_chat" :> [properties |-> {"room_id", "uids"},
        required |-> {"room_id", "uids"}])
    @@ ("leave_chat_room" :> [properties |-> {"room_id"},
        required |-> {"room_id"}])
    @@ ("upload_image" :> [properties |-> {"file_path"},
        required |-> {"file_path"}])
    @@ ("upload_file" :> [properties |-> {"file_path"},
        required |-> {"file_path"}])
    @@ ("get_forum_updates" :> [properties |-> {},
        required |-> {}])

\* ToolExecutor._build_method_map: the callable of each tool name
_build_method_map ==
    ("get_notifications" :> "read.get_notifications")
    @@ ("get_unread_count" :> "read.get_unread_count")
    @@ ("get_unread_topics" :> "read.get_unread_topics")
    @@ ("get_recent_posts" :> "read.get_recent_posts")
    @@ ("get_topic" :> "read.get_topic")
    @@ ("get_categories" :> "read.get_categories")
    @@ ("get_category" :> "read.get_category")
    @@ ("get_user" :> "read.get_user")
    @@ ("get_user_by_username" :> "read.get_user_by_username")
    @@ ("search_users" :> "read.search_users")
    @@ ("get_config" :> "read.get_config")
    @@ ("get_post" :> "read.get_post")
    @@ ("create_topic" :> "write.create_topic")
    @@ ("create_reply" :> "write.create_reply")
    @@ ("edit_post" :> "write.edit_post")
    @@ ("delete_post" :> "write.delete_post")
    @@ ("delete_topic" :> "write.delete_topic")
    @@ ("vote_post" :> "write.vote_post")
    @@ ("unvote_post" :> "write.unvote_post")
    @@ ("bookmark_post" :> "write.bookmark_post")
    @@ ("unbookmark_post" :> "write.unbookmark_post")
    @@ ("follow_topic" :> "write.follow_topic")
    @@ ("unfollow_topic" :> "write.unfollow_topic")
    @@ ("mark_topic_read" :> "write.mark_topic_read")
    @@ ("mark_topic_unread" :> "write.mark_topic_unread")
    @@ ("set_topic_state" :> "write.set_topic_state")
    @@ ("pin_topic" :> "write.pin_topic")
    @@ ("unpin_topic" :> "write.unpin_topic")
    @@ ("update_topic_tags" :> "write.update_topic_tags")
    @@ ("add_topic_tag" :> "write.add_topic_tag")
    @@ ("remove_topic_tags" :> "write.remove_topic_tags")
    @@ ("move_post" :> "write.move_post")
    @@ ("restore_post" :> "write.restore_post")
    @@ ("soft_delete_post" :> "write.soft_delete_post")
    @@ ("get_post_replies" :> "write.get_post_replies")
    @@ ("get_chats" :> "chat.get_rooms")
    @@ ("create_chat_room" :> "chat.create_room")
    @@ ("send_chat_message" :> "chat.send_message")
    @@ ("get_chat_messages" :> "chat.get_messages")
    @@ ("get_chat_room_detail" :> "chat.get_room_detail")
    @@ ("add_users_to_chat" :> "chat.add_users")
    @@ ("leave_chat_room" :> "chat.leave_room")
    @@ ("rename_room" :> "chat.rename_room")
    @@ ("upload_image" :> "upload.image")
    @@ ("upload_file" :> "upload.post_file")
    @@ ("get_forum_updates" :> "get_forum_updates")

\* the parameters of each callable, as its def line declares them
Signature ==
    ("read.get_notifications" :> [required |-> {}, optional |-> {"filter", "page"}])
    @@ ("read.get_unread_count" :> [required |-> {}, optional |-> {}])
    @@ ("read.get_unread_topics" :> [required |-> {}, optional |-> {"start", "per_page", "filter"}])
    @@ ("read.get_recent_posts" :> [required |-> {}, optional |-> {"term", "page"}])
    @@ ("read.get_topic" :> [required |-> {"tid"}, optional |-> {"slug", "post_index"}])
    @@ ("read.get_categories" :> [required |-> {}, optional |-> {}])
    @@ ("read.get_category" :> [required |-> {"cid"}, optional |-> {"slug", "topic_index"}])
    @@ ("read.get_user" :> [required |-> {"uid"}, optional |-> {}])
    @@ ("read.get_user_by_username" :> [required |-> {"userslug"}, optional |-> {}])
    @@ ("read.search_users" :> [required |-> {}, optional |-> {"query", "section", "page"}])
    @@ ("read.get_config" :> [required |-> {}, optional |-> {}])
    @@ ("read.get_post" :> [required |-> {"pid"}, optional |-> {}])
    @@ ("write.create_topic" :> [required |-> {"cid", "title", "content"}, optional |-> {"tags", "timestamp"}])
    @@ ("write.create_reply" :> [required |-> {"tid", "content"}, optional |-> {"to_pid"}])
    @@ ("write.edit_post" :> [required |-> {"pid", "content"}, optional |-> {"title"}])
    @@ ("write.delete_post" :> [required |-> {"pid"}, optional |-> {}])
    @@ ("write.delete_topic" :> [required |-> {"tid"}, optional |-> {}])
    @@ ("write.vote_post" :> [required |-> {"pid"}, optional |-> {"delta"}])
    @@ ("write.unvote_post" :> [required |-> {"pid"}, optional |-> {}])
    @@ ("write.bookmark_post" :> [required |-> {"pid"}, optional |-> {}])
    @@ ("write.unbookmark_post" :> [required |-> {"pid"}, optional |-> {}])
    @@ ("write.follow_topic" :> [required |-> {"tid"}, optional |-> {}])
    @@ ("write.unfollow_topic" :> [required |-> {"tid"}, optional |-> {}])
    @@ ("write.mark_topic_read" :> [required |-> {"tid"}, optional |-> {}])
    @@ ("write.mark_topic_unread" :> [required |-> {"tid"}, optional |-> {}])
    @@ ("write.set_topic_state" :> [required |-> {"tid", "state"}, optional |-> {}])
    @@ ("write.pin_topic" :> [required |-> {"tid"}, optional |-> {"expiry"}])
    @@ ("write.unpin_topic" :> [required |-> {"tid"}, optional |-> {}])
    @@ ("write.update_topic_tags" :> [required |-> {"tid", "tags"}, optional |-> {}])
    @@ ("write.add_topic_tag" :> [required |-> {"tid", "tag"}, optional |-> {}])
    @@ ("write.remove_topic_tags" :> [required |-> {"tid"}, optional |-> {}])
    @@ ("write.move_post" :> [required |-> {"pid", "tid"}, optional |-> {}])
    @@ ("write.restore_post" :> [required |-> {"pid"}, optional |-> {}])
    @@ ("write.soft_delete_post" :> [required |-> {"pid"}, optional |-> {}])
    @@ ("write.get_post_replies" :> [required |-> {"pid"}, optional |-> {"start", "direction", "per_page"}])
    @@ ("chat.get_rooms" :> [required |-> {}, optional |-> {"start", "per_page"}])
    @@ ("chat.create_room" :> [required |-> {"uids"}, optional |-> {}])
    @@ ("chat.send_message" :> [required |-> {"room_id", "message"}, optional |-> {"to_mid"}])
    @@ ("chat.get_messages" :> [required |-> {"room_id"}, optional |-> {"start", "count"}])
    @@ ("chat.get_room_detail" :> [required |-> {"room_id"}, optional |-> {}])
    @@ ("chat.add_users" :> [required |-> {"room_id", "uids"}, optional |-> {}])
    @@ ("chat.leave_room" :> [required |-> {"room_id"}, optional |-> {"uids"}])
    @@ ("chat.rename_room" :> [required |-> {"room_id", "name"}, optional |-> {}])
    @@ ("upload.image" :> [required |-> {"file_path"}, optional |-> {}])
    @@ ("upload.post_file" :> [required |-> {"file_path"}, optional |-> {}])
    @@ ("get_forum_updates" :> [required |-> {}, optional |-> {}])

\* method(**args) binds: every required name is given and no other name
\* than a parameter
Binds(signature, args) ==
    /\ signature.required \subseteq DOMAIN args
    /\ DOMAIN args \subseteq signature.required \cup signature.optional

Topic1 == PyDict([tid |-> PyInt(1), title |-> PyStr("Hi")])

Notification1 == PyDict([type |-> PyStr("mention"), read |-> PyBool(FALSE)])

\* The answers to the requests of a tool
ToolReplies ==
    {Response(200, ContentJson,
              PyDict([topics |-> PyList(<<Topic1>>), topicCount |-> PyInt(1)])),
     Response(200, ContentJson, PyDict([notifications |-> PyList(<<Notification1>>)])),
     Response(200, ContentJson, PyDict([topics |-> PyNone])),
     Response(200, ContentJson, PyDict([csrf_token |-> PyStr("tokA")])),
     Response(401, ContentJson, Post1),
     [ok |-> FALSE, err |-> "httpx.ConnectError"]}

\* read.py:101-104: the query parameters of get_notifications; page is
\* not used
notification_params(filter, page) ==
    IF Truthy(filter) THEN PyDict([filter |-> filter]) ELSE EmptyDict

\* read.py:40-105: ReadAPI.get_notifications
get_notifications(h, filter, page, reply) ==
    get(h, "/api/notifications", notification_params(filter, page), reply)

Digits ==
    ("0" :> 0) @@ ("1" :> 1) @@ ("2" :> 2) @@ ("3" :> 3) @@ ("4" :> 4)
    @@ ("5" :> 5) @@ ("6" :> 6) @@ ("7" :> 7) @@ ("8" :> 8) @@ ("9" :> 9)

\* s.strip() for the blank
RECURSIVE strip(_)
strip(s) ==
    IF s = "" THEN s
    ELSE IF SubSeq(s, 1, 1) = " " THEN strip(Tail(s))
    ELSE IF SubSeq(s, Len(s), Len(s)) = " " THEN strip(SubSeq(s, 1, Len(s) - 1))
    ELSE s

\* s is one or more decimal digits
IsDigits(s) ==
    s # "" /\ \A i \in 1..Len(s) : SubSeq(s, i, i) \in DOMAIN Digits

\* the number that a string of digits writes
RECURSIVE DigitsValue(_)
DigitsValue(s) ==
    IF s = "" THEN 0
    ELSE 10 * DigitsValue(SubSeq(s, 1, Len(s) - 1)) + Digits[SubSeq(s, Len(s), Len(s))]

\* int(s) of a stripped string: an optional sign, then digits
int_signed(s) ==
    IF s # "" /\ SubSeq(s, 1, 1) \in {"-", "+"}
    THEN IF IsDigits(Tail(s))
         THEN Return(PyInt(IF SubSeq(s, 1, 1) = "-" THEN 0 - DigitsValue(Tail(s))
                           ELSE DigitsValue(Tail(s))))
         ELSE RaiseError("ValueError", "invalid literal for int() with base 10")
    ELSE IF IsDigits(s) THEN Return(PyInt(DigitsValue(s)))
    ELSE RaiseError("ValueError", "invalid literal for int() with base 10")

\* int(v) of Python for an int, a bool or a str
int(v) ==
    CASE v.t = "int" -> Return(v)
      [] v.t = "bool" -> Return(PyInt(IF v.v THEN 1 ELSE 0))
      [] v.t = "str" -> int_signed(strip(v.v))

\* read.py:124-126: r is the outcome of self._client.get(...);
\* isinstance(result, (int, str)) and int(result), which may raise
coerce(r) ==
    [sent |-> r.sent, net |-> r.net,
     out |-> IF r.out.kind = "raise" THEN r.out
             ELSE IF r.out.value.t \in {"int", "bool", "str"} THEN int(r.out.value)
             ELSE Return(PyInt(0))]

\* read.py:107-126: ReadAPI.get_unread_count
get_unread_count(h, reply) == coerce(get(h, "/api/unread/total", PyNone, reply))

\* read.py:179-187: ReadAPI.get_unread_topics without arguments
get_unread_topics(h, reply) == get(h, "/api/unread", EmptyDict, reply)

\* write.py:321-323: HTTPClient has no method patch
add_topic_tag(tag) ==
    [sent |-> <<>>, net |-> <<>>,
     out |-> IF ~Truthy(tag)
             THEN RaiseError("ValueError", "Tag cannot be empty")
             ELSE RaiseError("AttributeError",
                             "'HTTPClient' object has no attribute 'patch'")]

\* a list whose elements are all dicts
AllDicts(l) == l.t = "list" /\ \A i \in 1..Len(l.v) : IsDict(l.v[i])

\* tools.py:1301-1307: r is the outcome of client.read.get_unread_topics()
unread_part(r) ==
    IF r.out.kind = "raise" \/ ~IsDict(r.out.value)
    THEN [unread_count |-> PyInt(0), topics |-> PyList(<<>>)]
    ELSE [unread_count |-> DictGet(r.out.value, "topicCount", PyInt(0)),
          topics |-> DictGet(r.out.value, "topics", PyList(<<>>))]

\* tools.py:1310-1316: r is the outcome of client.read.get_notifications();
\* counting the unread ones raises on anything but a list of dicts
notifications_part(r) ==
    IF \/ r.out.kind = "raise"
       \/ ~IsDict(r.out.value)
       \/ ~AllDicts(DictGet(r.out.value, "notifications", PyList(<<>>)))
    THEN [notifications |-> PyList(<<>>), unread_notif_count |-> 0]
    ELSE [notifications |-> DictGet(r.out.value, "notifications", PyList(<<>>)),
          unread_notif_count |->
              Cardinality(
                  {i \in 1..Len(DictGet(r.out.value, "notifications",
                                        PyList(<<>>)).v) :
                      ~Truthy(DictGet(DictGet(r.out.value, "notifications",
                                              PyList(<<>>)).v[i],
                                      "read", PyBool(TRUE)))})]

\* tools.py:1321-1328: the simplified topic
simple_topic(t) ==
    PyDict([tid |-> DictGet(t, "tid", PyNone),
            title |-> DictGet(t, "title", PyNone),
            author |-> DictGet(DictGet(t, "user", EmptyDict), "username", PyNone),
            category |-> DictGet(DictGet(t, "category", EmptyDict), "name", PyNone),
            replies |-> DictGet(t, "postcount", PyNone),
            time |-> DictGet(t, "timestampISO", PyNone)])

\* tools.py:1333-1340: the simplified notification (no bodyShort has tags)
simple_notification(n) ==
    PyDict([type |-> DictGet(n, "type", PyNone),
            body |-> DictGet(n, "bodyShort", PyStr("")),
            user |-> DictGet(DictGet(n, "user", EmptyDict), "username", PyNone),
            path |-> DictGet(n, "path", PyNone),
            read |-> DictGet(n, "read", PyNone),
            time |-> DictGet(n, "datetimeISO", PyNone)])

\* l[:10]
First10(l) == SubSeq(l, 1, IF Len(l) < 10 THEN Len(l) ELSE 10)

\* tools.py:1318-1366: the result built from the two parts, without its
\* summary text; topics[:10] is outside any try
build_updates(u, n) ==
    IF u.topics.t # "list"
    THEN RaiseError("TypeError", "object is not subscriptable")
    ELSE IF ~AllDicts(u.topics)
    THEN RaiseError("AttributeError", "object has no attribute 'get'")
    ELSE Return(PyDict(
           [unread_count |-> u.unread_count,
            notification_count |-> PyInt(Len(n.notifications.v)),
            unread_notification_count |-> PyInt(n.unread_notif_count),
            topics |-> PyList([i \in 1..Len(First10(u.topics.v)) |->
                                  simple_topic(u.topics.v[i])]),
            notifications |-> PyList([i \in 1..Len(First10(n.notifications.v)) |->
                                  simple_notification(n.notifications.v[i])])]))

\* get_forum_updates that asks for the notifications only when the unread
\* topics were obtained
forum_updates_dependent(r1, r2) ==
    IF r1.out.kind = "raise"
    THEN [sent |-> r1.sent, net |-> r1.net,
          out |-> build_updates(unread_part(r1),
                                [notifications |-> PyList(<<>>),
                                 unread_notif_count |-> 0])]
    ELSE [sent |-> r1.sent \o r2.sent, net |-> r1.net \o r2.net,
          out |-> build_updates(unread_part(r1), notifications_part(r2))]

\* tools.py:1300-1366: r1 and r2 are the outcomes of the two sub-calls
forum_updates(r1, r2) ==
    [sent |-> r1.sent \o r2.sent, net |-> r1.net \o r2.net,
     out |-> build_updates(unread_part(r1), notifications_part(r2))]

get_forum_updates(h, reply1, reply2) ==
    forum_updates(get_unread_topics(h, reply1), get_notifications(h, PyStr(""), PyInt(1), reply2))

\* the callables whose body is modelled
Modelled ==
    {"write.create_topic", "write.add_topic_tag", "read.get_notifications",
     "read.get_unread_topics", "get_forum_updates"}

\* the body of the callable, run with bound arguments
call(method, args, h, reply1, reply2) ==
    CASE method = "write.create_topic" ->
           create_topic(h, args.cid, args.title, args.content, PyNone, PyNone,
                        reply1, reply2)
      [] method = "write.add_topic_tag" -> add_topic_tag(args.tag)
      [] method = "read.get_notifications" -> get_notifications(h, PyStr(""), PyInt(1), reply1)
      [] method = "read.get_unread_topics" -> get_unread_topics(h, reply1)
      [] method = "get_forum_updates" -> get_forum_updates(h, reply1, reply2)

\* tools.py:1112: method(**args) raises TypeError when args do not bind,
\* before the body runs
method_call(method, args, h, reply1, reply2) ==
    IF ~Binds(Signature[method], args)
    THEN [sent |-> <<>>, net |-> <<>>,
          out |-> RaiseError("TypeError", "missing or unexpected argument")]
    ELSE call(method, args, h, reply1, reply2)

\* the call without the except clause of tools.py:1113-1114
no_except_TypeError(name, r) ==
    [sent |-> r.sent, net |-> r.net, body |-> r.out, out |-> r.out]

\* tools.py:1111-1114: the try around the call; body is what the call
\* ended with
except_TypeError(name, r) ==
    [sent |-> r.sent, net |-> r.net, body |-> r.out,
     out |-> IF r.out.kind = "raise" /\ r.out.exc = "TypeError"
             THEN RaiseError("ValueError", "Invalid arguments for tool '" \o name
                                           \o "': " \o r.out.message)
             ELSE r.out]

\* execute without the test of the name at tools.py:1105-1107
execute_without_lookup(method_map, name, args, h, reply1, reply2) ==
    IF name \notin DOMAIN method_map
    THEN [sent |-> <<>>, net |-> <<>>, body |-> [kind |-> "none"],
          out |-> RaiseError("KeyError", name)]
    ELSE except_TypeError(name, method_call(method_map[name], args, h,
                                            reply1, reply2))

\* ToolExecutor.execute; the names joined into the message of the first
\* error are kept as a set
execute(method_map, name, args, h, reply1, reply2) ==
    IF name \notin DOMAIN method_map
    THEN [sent |-> <<>>, net |-> <<>>, body |-> [kind |-> "none"],
          out |-> [kind |-> "raise", exc |-> "ValueError",
                   message |-> "Unknown tool: '" \o name \o "'. Available tools: ",
                   available |-> DOMAIN method_map]]
    ELSE except_TypeError(name, method_call(method_map[name], args, h,
                                            reply1, reply2))

-----------------------------------------------------------------------------
(* The inputs of the operations *)

Endpoints == {"/api/v3/posts/" \o ToString(p) : p \in 1..MaxPid}

Params == {PyNone, PyDict([page |-> PyInt(2)])}

Datas == {PyNone, PyDict([content |-> PyStr("hello")])}

Files == {PyNone, PyDict([upload |-> PyStr("photo.png")])}

Tags == {PyNone, PyList(<<PyStr("news")>>)}

NoArgs == [k \in {} |-> PyNone]

NoHTTPClient == [config |-> PyNone, headers |-> NoHeaders, base_url |-> ""]

\* the names execute is called with: every tool and one that is none
ToolNames == DOMAIN _build_method_map \cup {"unknown_tool_name"}

\* the args execute is called with
ToolArgs ==
    {NoArgs,
     [x |-> PyInt(1)],
     [cid |-> PyInt(1), title |-> PyStr("T")],
     [cid |-> PyInt(1), title |-> PyStr("T"), content |-> PyStr("hello")],
     [tid |-> PyInt(1), tag |-> PyStr("")],
     [tid |-> PyInt(1), tag |-> PyStr("news")],
     [pid |-> PyInt(1), tid |-> PyInt(1)]}

\* the answers to the i-th request of execute(name, args), or one
\* placeholder when the call sends fewer requests
RepliesFor(name, args, i) ==
    IF /\ name \in DOMAIN _build_method_map
       /\ Binds(Signature[_build_method_map[name]], args)
       /\ \/ _build_method_map[name] \in {"write.create_topic", "get_forum_updates"}
          \/ i = 1 /\ _build_method_map[name] \in {"read.get_notifications",
                                                   "read.get_unread_topics"}
    THEN ToolReplies
    ELSE {[ok |-> FALSE, err |-> "httpx.ConnectError"]}

Idle == [op |-> "none"]

\* the record of a finished call
Done(op, args, r) ==
    [op |-> op, args |-> args, sent |-> r.sent, net |-> r.net, out |-> r.out]

\* the record of a finished transport verb
DoneVerb(op, endpoint, data, files, r) ==
    [op |-> op,
     args |-> [endpoint |-> endpoint, data |-> data, files |-> files,
               after |-> r.arg],
     sent |-> r.sent, net |-> r.net, out |-> r.out]

\* What is remembered of a get_csrf_token call when the next one is made
Summary(r) ==
    IF r.out.kind = "return"
    THEN [kind |-> "return", value |-> r.out.value, nsent |-> Len(r.sent)]
    ELSE [kind |-> "none"]

-----------------------------------------------------------------------------
(* The state machine.  config is the configuration value; client is "open"
   once NodeBBClient(config) has returned; http is its HTTPClient;
   csrf_token is client.auth._csrf_token; last is the call the application
   has made and not yet dropped the result of; recent summarises the
   application's latest client.auth.get_csrf_token() call that returned;
   warned tells whether the constructor has issued the auto-login warning;
   scope is the position of the application relative to a "with" block on
   the client; released counts the releases of the underlying connection;
   callers and written belong to the threads of ConcurrentSpec. *)

\* a thread that is about to run line 61 of get_csrf_token
NotCalled == [pc |-> "check", fetched |-> [out |-> [kind |-> "none"]],
              ret |-> [kind |-> "none"]]

Init ==
    /\ config \in Configs
    /\ client = "none"
    /\ http = NoHTTPClient
    /\ csrf_token = PyNone
    /\ recent = [kind |-> "none"]
    /\ last = Idle
    /\ warned = FALSE
    /\ scope = "none"
    /\ released = 0
    /\ callers = [t \in 1..NumCallers |-> NotCalled]
    /\ written = <<>>

\* config.validate() called by the application
Validate ==
    /\ client = "none"
    /\ last = Idle
    /\ last' = [op |-> "validate", args |-> NoArgs, sent |-> <<>>, net |-> <<>>,
                out |-> validate(config)]
    /\ UNCHANGED <<config, client, http, csrf_token, recent>>
    /\ UNCHANGED <<warned, scope, released, callers, written>>

\* the state after NodeBBClient(config) ended as c
Constructed(c) ==
    /\ last' = [op |-> "NodeBBClient", args |-> NoArgs, sent |-> c.sent,
                net |-> c.net, out |-> c.out, warned |-> c.warned]
    /\ warned' = c.warned
    /\ IF c.built
       THEN /\ client' = "open"
            /\ http' = c.http
            /\ csrf_token' = c.cache
       ELSE UNCHANGED <<client, http, csrf_token>>

\* NodeBBClient(config)
Construct ==
    /\ client = "none"
    /\ last = Idle
    /\ \E reply1 \in ConfigReplies, reply2 \in LoginReplies :
          Constructed(NodeBBClient(config, reply1, reply2))
    /\ UNCHANGED <<config, recent>>
    /\ UNCHANGED <<scope, released, callers, written>>

Get ==
    /\ client = "open"
    /\ last = Idle
    /\ \E endpoint \in Endpoints, params \in Params, reply \in NetReplies :
          last' = DoneVerb("get", endpoint, params, PyNone,
                           get(http, endpoint, params, reply))
    /\ UNCHANGED <<config, client, http, csrf_token, recent>>
    /\ UNCHANGED <<warned, scope, released, callers, written>>

Post ==
    /\ client = "open"
    /\ last = Idle
    /\ \E endpoint \in Endpoints, data \in Datas, files \in Files,
          reply \in NetReplies :
          last' = DoneVerb("post", endpoint, data, files,
                           post(http, endpoint, data, files, reply))
    /\ UNCHANGED <<config, client, http, csrf_token, recent>>
    /\ UNCHANGED <<warned, scope, released, callers, written>>

Put ==
    /\ client = "open"
    /\ last = Idle
    /\ \E endpoint \in Endpoints, data \in Datas, reply \in NetReplies :
          last' = DoneVerb("put", endpoint, data, PyNone,
                           put(http, endpoint, data, reply))
    /\ UNCHANGED <<config, client, http, csrf_token, recent>>
    /\ UNCHANGED <<warned, scope, released, callers, written>>

Delete ==
    /\ client = "open"
    /\ last = Idle
    /\ \E endpoint \in Endpoints, data \in Datas, reply \in NetReplies :
          last' = DoneVerb("delete", endpoint, data, PyNone,
                           delete(http, endpoint, data, reply))
    /\ UNCHANGED <<config, client, http, csrf_token, recent>>
    /\ UNCHANGED <<warned, scope, released, callers, written>>

\* the state after client.auth.get_csrf_token() ended as r
GotCsrfToken(r) ==
    /\ last' = Done("get_csrf_token", [previous |-> recent], r)
    /\ csrf_token' = r.cache
    /\ recent' = Summary(r)

\* client.auth.get_csrf_token()
GetCsrfToken ==
    /\ client = "open"
    /\ last = Idle
    /\ \E reply \in NetReplies :
          GotCsrfToken(get_csrf_token(csrf_token, http, reply))
    /\ UNCHANGED <<config, client, http>>
    /\ UNCHANGED <<warned, scope, released, callers, written>>

\* the state after client.login(...) ended as r
LoggedIn(remember, r) ==
    /\ last' = Done("login", [remember |-> remember], r)
    /\ csrf_token' = r.cache

\* client.login(username, password, remember)
Login ==
    /\ client = "open"
    /\ last = Idle
    /\ \E remember \in BOOLEAN, reply1 \in ConfigReplies, reply2 \in LoginReplies :
          LoggedIn(remember, login(csrf_token, http, PyStr("alice"), PyStr("pw"),
                                   remember, reply1, reply2))
    /\ UNCHANGED <<config, client, http, recent>>
    /\ UNCHANGED <<warned, scope, released, callers, written>>

\* the state after an operation of client.auth ended as r
AuthDone(op, r) ==
    /\ last' = Done(op, NoArgs, r)
    /\ csrf_token' = r.cache

\* client.auth.register(username, password)
Register ==
    /\ client = "open"
    /\ last = Idle
    /\ \E reply1 \in ConfigReplies, reply2 \in FormReplies :
          AuthDone("register", register(csrf_token, http, PyStr("alice"),
                                        PyStr("pw"), reply1, reply2))
    /\ UNCHANGED <<config, client, http, recent>>
    /\ UNCHANGED <<warned, scope, released, callers, written>>

\* client.auth.register_complete()
RegisterComplete ==
    /\ client = "open"
    /\ last = Idle
    /\ \E reply1 \in ConfigReplies, reply2 \in FormReplies :
          AuthDone("register_complete",
                   register_complete(csrf_token, http, reply1, reply2))
    /\ UNCHANGED <<config, client, http, recent>>
    /\ UNCHANGED <<warned, scope, released, callers, written>>

\* client.auth.logout()
Logout ==
    /\ client = "open"
    /\ last = Idle
    /\ \E reply1 \in ConfigReplies, reply2 \in FormReplies :
          AuthDone("logout", logout(csrf_token, http, reply1, reply2))
    /\ UNCHANGED <<config, client, http, recent>>
    /\ UNCHANGED <<warned, scope, released, callers, written>>

\* client.create_topic(cid, title, content, tags)
CreateTopic ==
    /\ client = "open"
    /\ last = Idle
    /\ \E tags \in Tags, reply1 \in ConfigReplies, reply2 \in WriteReplies :
          last' = Done("create_topic", [tags |-> tags],
                       create_topic(http, PyInt(1), PyStr("Hi"), PyStr("hello"),
                                    tags, PyNone, reply1, reply2))
    /\ UNCHANGED <<config, client, http, csrf_token, recent>>
    /\ UNCHANGED <<warned, scope, released, callers, written>>

\* the record of a finished execute
Executed(name, args, r) ==
    [op |-> "execute", args |-> [name |-> name, args |-> args],
     sent |-> r.sent, net |-> r.net, out |-> r.out, body |-> r.body]

\* ToolExecutor(client).execute(name, args), for the args that do not bind
\* and for those that bind to a callable whose body is modelled
Execute ==
    /\ client = "open"
    /\ last = Idle
    /\ \E name \in ToolNames, args \in ToolArgs :
          /\ name \in DOMAIN _build_method_map
             => \/ ~Binds(Signature[_build_method_map[name]], args)
                \/ _build_method_map[name] \in Modelled
          /\ \E reply1 \in RepliesFor(name, args, 1),
                reply2 \in RepliesFor(name, args, 2) :
                last' = Executed(name, args,
                                 execute(_build_method_map, name, args, http,
                                         reply1, reply2))
    /\ UNCHANGED <<config, client, http, csrf_token, recent>>
    /\ UNCHANGED <<warned, scope, released, callers, written>>

\* get_tool_definitions()
GetToolDefinitions ==
    /\ last = Idle
    /\ last' = [op |-> "get_tool_definitions", args |-> NoArgs, sent |-> <<>>,
                net |-> <<>>, out |-> Return(get_tool_definitions)]
    /\ UNCHANGED <<config, client, http, csrf_token, recent>>
    /\ UNCHANGED <<warned, scope, released, callers, written>>

\* the answers to the GET of a read operation
ReadReplies ==
    {Response(200, ContentJson, b) :
        b \in {PyInt(5), PyStr(" -12 "), PyStr("many"), PyNone, PyList(<<>>),
               PyDict([notifications |-> PyList(<<Notification1>>)])}}
    \cup {Response(401, ContentJson, Post1),
          [ok |-> FALSE, err |-> "httpx.ConnectError"]}

\* client.get_notifications(filter, page)
GetNotifications ==
    /\ client = "open"
    /\ last = Idle
    /\ \E filter \in {PyStr(""), PyStr("mention")}, page \in {PyInt(1), PyInt(2)},
          reply \in ReadReplies :
          last' = Done("get_notifications", [filter |-> filter, page |-> page],
                       get_notifications(http, filter, page, reply))
    /\ UNCHANGED <<config, client, http, csrf_token, recent>>
    /\ UNCHANGED <<warned, scope, released, callers, written>>

\* client.get_unread_count()
GetUnreadCount ==
    /\ client = "open"
    /\ last = Idle
    /\ \E reply \in ReadReplies :
          last' = Done("get_unread_count", NoArgs, get_unread_count(http, reply))
    /\ UNCHANGED <<config, client, http, csrf_token, recent>>
    /\ UNCHANGED <<warned, scope, released, callers, written>>

\* "with client:" entered: __enter__ returns the client (client.py:257-259)
Enter ==
    /\ client = "open"
    /\ scope = "none"
    /\ last = Idle
    /\ scope' = "inside"
    /\ UNCHANGED <<config, client, http, csrf_token, recent, last>>
    /\ UNCHANGED <<warned, released, callers, written>>

\* the state after the connection was closed as c
Closed(c) ==
    /\ client' = c.client
    /\ released' = c.released

\* client.close(), inside or outside a "with" block, also on a closed client
Close ==
    /\ client \in {"open", "closed"}
    /\ last = Idle
    /\ Closed(close(client, released))
    /\ UNCHANGED <<config, http, csrf_token, recent, last>>
    /\ UNCHANGED <<warned, scope, callers, written>>

\* The "with" block ends, normally or by the exception that the last call
\* raised and that leaves the block with it: __exit__ runs.
Exit ==
    /\ scope = "inside"
    /\ IF last = Idle THEN TRUE ELSE last.out.kind = "raise"
    /\ scope' = IF last = Idle THEN "left" ELSE "left by exception"
    /\ last' = Idle
    /\ Closed(__exit__(client, released))
    /\ UNCHANGED <<config, http, csrf_token, recent>>
    /\ UNCHANGED <<warned, callers, written>>

\* The application has looked at the result of its call and drops it.
Discard ==
    /\ last # Idle
    /\ last' = Idle
    /\ UNCHANGED <<config, client, http, csrf_token, recent>>
    /\ UNCHANGED <<warned, scope, released, callers, written>>

Next ==
    \/ Validate
    \/ Construct
    \/ Get
    \/ Post
    \/ Put
    \/ Delete
    \/ GetCsrfToken
    \/ Login
    \/ Register
    \/ RegisterComplete
    \/ Logout
    \/ CreateTopic
    \/ Execute
    \/ GetToolDefinitions
    \/ GetNotifications
    \/ GetUnreadCount
    \/ Enter
    \/ Close
    \/ Exit
    \/ Discard

Spec == Init /\ [][Next]_vars

-----------------------------------------------------------------------------
(* Threads that call client.auth.get_csrf_token() on one client at once.
   Each step is one read or write of self._csrf_token, or the request. *)

\* the GET of /api/config has returned a dict that holds a token
HasToken(r) ==
    r.out.kind = "return" /\ IsDict(r.out.value) /\ HasKey(r.out.value, "csrf_token")

\* The answers to GET /api/config while threads race: a token in either
\* of the two shapes, an error status, a connection error
RaceReplies == ConfigReplies \ {Response(200, ContentJson, Post1)}

\* the return statement with the value the thread has fetched itself
returned_token_fetched(cache, r) ==
    IF HasToken(r) THEN r.out.value.v["csrf_token"] ELSE cache

\* auth.py:62 and auth.py:67: return self._csrf_token reads the attribute
\* again
returned_token(cache, r) == cache

ConcurrentInit ==
    /\ config \in {c \in Configs : validate(c).kind = "return" /\ c.username = PyNone}
    /\ client = "open"
    /\ http = HTTPClient(config)
    /\ csrf_token = PyNone
    /\ recent = [kind |-> "none"]
    /\ last = Idle
    /\ warned = FALSE
    /\ scope = "none"
    /\ released = 0
    /\ callers = [t \in 1..NumCallers |-> NotCalled]
    /\ written = <<>>

\* auth.py:61: if self._csrf_token
CheckCache(t) ==
    /\ callers[t].pc = "check"
    /\ callers' = [callers EXCEPT ![t].pc =
                     IF Truthy(csrf_token) THEN "return" ELSE "fetch"]
    /\ UNCHANGED <<config, client, http, csrf_token, recent, last,
                   warned, scope, released, written>>

\* the thread after self._client.get("/api/config") ended as r
Fetched(t, r) ==
    callers' = [callers EXCEPT ![t] =
                  IF r.out.kind = "raise"
                  THEN [pc |-> "done", fetched |-> r, ret |-> r.out]
                  ELSE [pc |-> "store", fetched |-> r, ret |-> @.ret]]

\* auth.py:64: result = self._client.get("/api/config")
FetchConfig(t) ==
    /\ callers[t].pc = "fetch"
    /\ \E reply \in RaceReplies : Fetched(t, get(http, "/api/config", PyNone, reply))
    /\ UNCHANGED <<config, client, http, csrf_token, recent, last,
                   warned, scope, released, written>>

\* the state after the thread ran auth.py:65-66 or auth.py:65,71 as s
Stored(t, s) ==
    /\ csrf_token' = s.cache
    /\ IF HasToken(callers[t].fetched)
       THEN /\ written' = Append(written, s.cache)
            /\ callers' = [callers EXCEPT ![t].pc = "return"]
       ELSE /\ written' = written
            /\ callers' = [callers EXCEPT ![t].pc = "done", ![t].ret = s.out]

\* auth.py:65-66: the test of the result and the write of self._csrf_token
StoreToken(t) ==
    /\ callers[t].pc = "store"
    /\ Stored(t, store_token(csrf_token, callers[t].fetched))
    /\ UNCHANGED <<config, client, http, recent, last, warned, scope, released>>

\* auth.py:62 or auth.py:67: return self._csrf_token
ReturnToken(t) ==
    /\ callers[t].pc = "return"
    /\ callers' = [callers EXCEPT
                     ![t].pc = "done",
                     ![t].ret = Return(returned_token(csrf_token, callers[t].fetched))]
    /\ UNCHANGED <<config, client, http, csrf_token, recent, last,
                   warned, scope, released, written>>

ConcurrentNext ==
    \E t \in 1..NumCallers :
        \/ CheckCache(t)
        \/ FetchConfig(t)
        \/ StoreToken(t)
        \/ ReturnToken(t)

ConcurrentSpec == ConcurrentInit /\ [][ConcurrentNext]_vars

-----------------------------------------------------------------------------
(* Properties *)

TransportVerbs == {"get", "post", "put", "delete"}

\* the application's call went through a transport verb and got a response
Answered == last.op \in TransportVerbs /\ last.net[1].ok

\* the response has a status >= 400 that has no branch of its own
OtherError ==
    /\ Answered
    /\ last.net[1].status_code >= 400
    /\ last.net[1].status_code \notin {401, 403, 404, 429}

\* the body of the response is an envelope whose status is an object
Enveloped ==
    /\ IsDict(last.net[1].body)
    /\ HasKey(last.net[1].body, "status")
    /\ IsDict(last.net[1].body.v["status"])

StatusOfBody == last.net[1].body.v["status"]

Raises(exc) == last.out.kind = "raise" /\ last.out.exc = exc

\* C1: a response with status 401, 403, 404 or 429 makes the transport verb
\* raise AuthenticationError, PrivilegeError, ResourceNotFoundError or
\* RateLimitError respectively, whatever the body is.
C1_StatusTakesPrecedence ==
    Answered =>
        /\ last.net[1].status_code = 401 => Raises("AuthenticationError")
        /\ last.net[1].status_code = 403 => Raises("PrivilegeError")
        /\ last.net[1].status_code = 404 => Raises("ResourceNotFoundError")
        /\ last.net[1].status_code = 429 => Raises("RateLimitError")

\* a 429 response whose body is a bad-params envelope raised RateLimitError
C1_Witness ==
    /\ Answered
    /\ last.net[1].status_code = 429
    /\ Enveloped
    /\ DictGet(StatusOfBody, "code", PyNone) = PyStr("bad-params")
    /\ Raises("RateLimitError")

\* C2: a response with another status >= 400 whose body is an envelope with
\* status.code "bad-params" makes the transport verb raise ValidationError
\* carrying the list status.params.
C2_BadParamsRaisesValidationError ==
    (/\ OtherError
     /\ Enveloped
     /\ DictGet(StatusOfBody, "code", PyNone) = PyStr("bad-params"))
    => /\ Raises("ValidationError")
       /\ last.out.errors = DictGet(StatusOfBody, "params", PyList(<<>>))

\* C3: a response with another status >= 400 whose body is an envelope with
\* a status.code other than "bad-params" makes the transport verb raise
\* APIError with the message status.message (a default when the server gave
\* none) and the HTTP status as status code.
C3_EnvelopeErrorCarriesMessage ==
    (/\ OtherError
     /\ Enveloped
     /\ DictGet(StatusOfBody, "code", PyNone) # PyStr("bad-params"))
    => /\ Raises("APIError")
       /\ last.out.status_code = PyInt(last.net[1].status_code)
       /\ HasKey(StatusOfBody, "message")
            => last.out.message = StatusOfBody.v["message"].v

\* C4: a 2xx response whose body is an envelope with a status.code other
\* than "ok" makes the transport verb raise a failure of the taxonomy
\* carrying status.message, and return nothing.
C4_EnvelopeFailureRaises ==
    (/\ Answered
     /\ last.net[1].status_code \in 200..299
     /\ Enveloped
     /\ DictGet(StatusOfBody, "code", PyNone) # PyStr("ok"))
    => /\ last.out.kind = "raise"
       /\ last.out.exc \in NodeBBError
       /\ HasKey(StatusOfBody, "message")
            => last.out.message = StatusOfBody.v["message"].v

\* C5: a response with status >= 400 always ends the transport verb with a
\* raised failure, whatever the shape of the body.
C5_ErrorStatusAlwaysRaises ==
    (Answered /\ last.net[1].status_code >= 400) => last.out.kind = "raise"

\* C6: a connection-level error during a transport verb reaches the caller
\* as NetworkError, never as the error of the HTTP library.
C6_ConnectionErrorIsNetworkError ==
    (last.op \in TransportVerbs /\ ~last.net[1].ok) => Raises("NetworkError")

WriteOps == {"post", "put", "delete", "create_topic"}

\* the request of a write call: the last one that the call sent
WriteRequest == last.sent[Len(last.sent)]

\* C7: in master mode the body on the wire of every write call (one that
\* is not a multipart upload, which has no body) is the caller's body with
\* the one added field _uid set to the configured uid, and the caller's
\* body object is as it was.
C7_MasterModeInjectsUid ==
    (/\ client = "open"
     /\ auth_type(config) = "master"
     /\ last.op \in WriteOps
     /\ last.sent # <<>>
     /\ WriteRequest.method # "GET"
     /\ WriteRequest.files = PyNone)
    => /\ IsDict(WriteRequest.json)
       /\ HasKey(WriteRequest.json, "_uid")
       /\ WriteRequest.json.v["_uid"] = config.uid
       /\ last.op \in TransportVerbs =>
            /\ WriteRequest.json =
                 DictSet(IF last.args.data = PyNone THEN EmptyDict
                         ELSE last.args.data, "_uid", config.uid)
            /\ last.args.after = last.args.data

\* C8: validating, or building a client from, a configuration (with a base
\* URL, so that nothing else is wrong with it) that has a master token and
\* no uid fails with ConfigurationError and yields no client.
C8_MasterWithoutUidIsConfigurationError ==
    (/\ last.op \in {"validate", "NodeBBClient"}
     /\ config.base_url # ""
     /\ Truthy(config.master_token)
     /\ config.uid = PyNone)
    => Raises("ConfigurationError") /\ client = "none"

\* what C9 says of one set of headers
BearerOf(headers) ==
    IF Truthy(config.user_token)
    THEN /\ "Authorization" \in DOMAIN headers
         /\ headers["Authorization"] = "Bearer " \o config.user_token.v
    ELSE IF Truthy(config.master_token)
    THEN /\ "Authorization" \in DOMAIN headers
         /\ headers["Authorization"] = "Bearer " \o config.master_token.v
    ELSE "Authorization" \notin DOMAIN headers

\* C9: the default headers of the client, and so the headers of every
\* request it sends, carry Bearer <user_token> when there is a user token,
\* else Bearer <master_token> when there is a master token, else no
\* Authorization header.
C9_DefaultHeaders ==
    client = "open" =>
        /\ BearerOf(http.headers)
        /\ last # Idle =>
             \A i \in 1..Len(last.sent) : BearerOf(last.sent[i].headers)

\* a client with both tokens has sent a request with the user token
C9_Witness ==
    /\ client = "open"
    /\ Truthy(config.user_token)
    /\ Truthy(config.master_token)
    /\ last # Idle
    /\ last.sent # <<>>
    /\ last.sent[1].headers["Authorization"] = "Bearer utok"

\* C10 as stated: after a get_csrf_token call that returned, the next one
\* sends no request, the two send at most one request together, and the
\* second returns what the first returned.
C10_SecondCallAlwaysCached ==
    (/\ last.op = "get_csrf_token"
     /\ last.args.previous.kind = "return")
    => /\ last.sent = <<>>
       /\ last.args.previous.nsent + Len(last.sent) <= 1
       /\ last.out = Return(last.args.previous.value)

\* C10 amended: after a get_csrf_token call that returned a non-empty
\* token, the next one sends no request, the two send at most one request
\* together, and the second returns what the first returned.
C10_SecondCallCachedAfterToken ==
    (/\ last.op = "get_csrf_token"
     /\ last.args.previous.kind = "return"
     /\ Truthy(last.args.previous.value))
    => /\ last.sent = <<>>
       /\ last.args.previous.nsent + Len(last.sent) <= 1
       /\ last.out = Return(last.args.previous.value)

\* the first call fetched a token from the server, the second was served
\* from the cache
C10_Witness ==
    /\ last.op = "get_csrf_token"
    /\ last.args.previous.kind = "return"
    /\ Truthy(last.args.previous.value)
    /\ last.args.previous.nsent = 1
    /\ last.sent = <<>>
    /\ last.out = Return(last.args.previous.value)

\* C11: once the auth component of the client holds a token, no operation
\* (get_csrf_token, login, register, register_complete, logout, create_topic,
\* the transport verbs), whether it returns or raises, changes the token or
\* empties the cache.
C11_CachedTokenNeverChanges ==
    [][Truthy(csrf_token) => csrf_token' = csrf_token]_vars

\* logout has failed on a client that holds a token, and the token is kept
C11_Witness ==
    /\ last.op = "logout"
    /\ last.out.kind = "raise"
    /\ Len(last.sent) = 1
    /\ csrf_token = PyStr("tokA")

\* the request that fetches the token
IsConfigFetch(request) ==
    request.method = "GET" /\ request.url = _make_url(config.base_url, "/api/config")

\* C12: once an operation has obtained the token from the server and the
\* client holds it, no later operation of the client (login, register,
\* logout, create_topic, ...) sends GET /api/config again.
C12_ConfigFetchedAtMostOnce ==
    [][(Truthy(csrf_token) /\ last' # Idle)
        => \A i \in 1..Len(last'.sent) : ~IsConfigFetch(last'.sent[i])]_vars

\* the tokens that the server has issued to the threads
Issued ==
    {callers[t].fetched.out.value.v["csrf_token"] :
        t \in {u \in 1..NumCallers : HasToken(callers[u].fetched)}}

\* the cache holds a token and no thread is left that may write it
Settled ==
    /\ Truthy(csrf_token)
    /\ \A u \in 1..NumCallers : callers[u].pc \notin {"fetch", "store"}

\* what C13 says of every state of the race
C13_State ==
    /\ \A t \in 1..NumCallers :
          (callers[t].pc = "done" /\ callers[t].ret.kind = "return")
          => callers[t].ret.value \in Issued
    /\ IF written = <<>>
       THEN csrf_token = PyNone
       ELSE csrf_token = written[Len(written)] /\ csrf_token \in Issued

\* what C13 says of every return made once the cache is settled
C13_Step ==
    \A t \in 1..NumCallers :
        (Settled /\ callers[t].pc = "return" /\ callers'[t].pc = "done")
        => callers'[t].ret = Return(csrf_token) /\ csrf_token' = csrf_token

RequestsTo(path) ==
    {i \in 1..Len(last.sent) : last.sent[i].url = _make_url(config.base_url, path)}

\* C14: NodeBBClient(config) with a valid configuration runs the login
\* pathway once if and only if username and password are both present;
\* whatever that attempt ends with, the constructor raises nothing and
\* yields the client; calls made on the client later send their request.
C14_AutoLoginNeverFails ==
    /\ (last.op = "NodeBBClient" /\ validate(config).kind = "return")
       => /\ last.out = Return(PyNone)
          /\ client = "open"
          /\ IF Truthy(config.username) /\ Truthy(config.password)
             THEN /\ Cardinality(RequestsTo("/api/config")) = 1
                  /\ Cardinality(RequestsTo("/login")) <= 1
                  /\ warned = (last.net[Len(last.net)].ok = FALSE
                               \/ Len(last.sent) = 1
                               \/ last.net[Len(last.net)].status_code >= 400)
             ELSE last.sent = <<>> /\ ~warned
    /\ (client = "open" /\ last.op \in TransportVerbs) => Len(last.sent) = 1

\* the auto-login failed at construction, and a later get on the client
\* has sent its request and returned
C14_Witness ==
    /\ client = "open"
    /\ warned
    /\ last.op = "get"
    /\ Len(last.sent) = 1
    /\ last.out.kind = "return"

\* the application has called execute(name, args)
Executing == last.op = "execute"

\* the name given to execute is a key of the dispatch table
KnownTool == last.args.name \in DOMAIN _build_method_map

\* the args given to execute bind to the parameters of the callable
ArgsBind == Binds(Signature[_build_method_map[last.args.name]], last.args.args)

\* C15: execute with a name that is not in the dispatch table raises the
\* error for an unknown tool whatever the args are, the message lists the
\* names of the table, and no request is sent.
C15_UnknownToolListsNames ==
    (Executing /\ ~KnownTool)
    => /\ Raises("ValueError")
       /\ last.out.message
            = "Unknown tool: '" \o last.args.name \o "'. Available tools: "
       /\ last.out.available = DOMAIN _build_method_map
       /\ last.out.available # {}
       /\ last.sent = <<>>

\* execute("unknown_tool_name", {"x": 1}) has raised, listing create_topic
C15_Witness ==
    /\ Executing
    /\ last.args.name = "unknown_tool_name"
    /\ last.args.args = [x |-> PyInt(1)]
    /\ Raises("ValueError")
    /\ "create_topic" \in last.out.available

\* C16: execute with a known tool and args that do not bind to the
\* parameters of its callable (a required name missing, or a name it does
\* not accept) raises the error for invalid arguments and sends no request.
C16_UnboundArgsSendNothing ==
    (Executing /\ KnownTool /\ ~ArgsBind)
    => /\ Raises("ValueError")
       /\ last.out.message
            = "Invalid arguments for tool '" \o last.args.name
              \o "': missing or unexpected argument"
       /\ last.sent = <<>>

\* execute("create_topic", {"cid": 1, "title": "T"}) has raised without a
\* request
C16_Witness ==
    /\ Executing
    /\ last.args.name = "create_topic"
    /\ last.args.args = [cid |-> PyInt(1), title |-> PyStr("T")]
    /\ Raises("ValueError")
    /\ last.sent = <<>>

\* C17: when the args bind and the body of the callable raises an error,
\* execute raises that same error.
C17_BodyErrorsPropagateUnchanged ==
    (Executing /\ KnownTool /\ ArgsBind /\ last.body.kind = "raise")
    => last.out = last.body

\* C18: the names of the descriptors of get_tool_definitions are the keys
\* of the dispatch table of ToolExecutor, and no name occurs twice.
C18_RegistryComplete ==
    last.op = "get_tool_definitions"
    => /\ {last.out.value[i] : i \in DOMAIN last.out.value}
            = DOMAIN _build_method_map
       /\ \A i, j \in DOMAIN last.out.value :
            last.out.value[i] = last.out.value[j] => i = j

\* get_tool_definitions has returned its 46 descriptors, the last of which
\* is a key of the table
C18_Witness ==
    /\ last.op = "get_tool_definitions"
    /\ Len(last.out.value) = 46
    /\ last.out.value[46] \in DOMAIN _build_method_map

\* the application has run get_forum_updates through execute
ForumUpdates ==
    Executing /\ last.args.name = "get_forum_updates" /\ last.args.args = NoArgs

\* what the two sub-calls of get_forum_updates ended with
UnreadCall == get_unread_topics(http, last.net[1]).out

NotificationsCall ==
    get_notifications(http, PyStr(""), PyInt(1), last.net[2]).out

\* the topics of the result when the unread-topics call returned them
TopicsOf(result) ==
    IF IsDict(result) /\ HasKey(result, "topics")
    THEN PyList([i \in 1..Len(result.v["topics"].v) |->
                    simple_topic(result.v["topics"].v[i])])
    ELSE PyList(<<>>)

\* the notifications of the result when the notifications call returned them
NotificationsOf(result) ==
    IF IsDict(result) /\ HasKey(result, "notifications")
    THEN PyList([i \in 1..Len(result.v["notifications"].v) |->
                    simple_notification(result.v["notifications"].v[i])])
    ELSE PyList(<<>>)

C19_WitnessUnreadFails ==
    /\ ForumUpdates
    /\ UnreadCall.kind = "raise"
    /\ last.body.kind = "return"
    /\ last.body.value.v["notifications"] = PyList(<<simple_notification(Notification1)>>)
    /\ last.body.value.v["unread_notification_count"] = PyInt(1)

TopicAnswered ==
    /\ last.op = "create_topic"
    /\ Len(last.net) = 2
    /\ last.net[2].ok

\* C21: a response with status 401, 403, 404 or 429 to the request of a
\* sub-client operation, create_topic included, makes the operation raise
\* AuthenticationError, PrivilegeError, ResourceNotFoundError or
\* RateLimitError respectively.
C21_ClassifierRunsOnEveryCall ==
    TopicAnswered =>
        /\ last.net[2].status_code = 401 => Raises("AuthenticationError")
        /\ last.net[2].status_code = 403 => Raises("PrivilegeError")
        /\ last.net[2].status_code = 404 => Raises("ResourceNotFoundError")
        /\ last.net[2].status_code = 429 => Raises("RateLimitError")

\* the call put on the wire what the transport call p puts there, and ended
\* as p ends
SameCall(r, p) == r.sent = p.sent /\ r.out = p.out

\* C22: create_topic(cid, title, content, tags) is one call of
\* HTTPClient.post with the path /api/v3/topics/ and a body of exactly the
\* supplied fields (tags only when given): it sends that one request and
\* returns or raises what post returns or raises.
C22_OnePostThroughTransport ==
    last.op = "create_topic" =>
        SameCall(last,
                 post(http, "/api/v3/topics/",
                      topic_data(PyInt(1), PyStr("Hi"), PyStr("hello"),
                                 last.args.tags, PyNone),
                      PyNone, last.net[Len(last.net)]))

\* C23: get_notifications(filter, page) sends one GET /api/notifications
\* whose query parameters hold filter exactly when filter is not empty and
\* hold page, with the caller's value, exactly when page is not 1.
C23_NotificationParams ==
    last.op = "get_notifications" =>
        /\ Len(last.sent) = 1
        /\ last.sent[1].method = "GET"
        /\ last.sent[1].url = _make_url(config.base_url, "/api/notifications")
        /\ IsDict(last.sent[1].params)
        /\ HasKey(last.sent[1].params, "filter") <=> Truthy(last.args.filter)
        /\ HasKey(last.sent[1].params, "filter")
           => last.sent[1].params.v["filter"] = last.args.filter
        /\ HasKey(last.sent[1].params, "page") <=> last.args.page # PyInt(1)
        /\ HasKey(last.sent[1].params, "page")
           => last.sent[1].params.v["page"] = last.args.page
        /\ DOMAIN last.sent[1].params.v \subseteq {"filter", "page"}

\* the GET of get_unread_count was answered 200 with a body that is JSON
CountAnswered ==
    /\ last.op = "get_unread_count"
    /\ last.net[1].ok
    /\ last.net[1].status_code = 200
    /\ last.net[1].body.t # "text"

\* C24: get_unread_count returns the integer value of a body that is an
\* integer or a numeric string and 0 for every other body; a body that
\* cannot be coerced never makes it raise.
C24_UnreadCountCoerces ==
    CountAnswered =>
        /\ last.out.kind = "return"
        /\ last.out.value.t = "int"
        /\ last.net[1].body = PyInt(5) => last.out.value = PyInt(5)
        /\ last.net[1].body = PyStr(" -12 ") => last.out.value = PyInt(0 - 12)
        /\ last.net[1].body \in {PyStr("many"), PyNone, PyList(<<>>)}
           => last.out.value = PyInt(0)

\* the POST of login was answered with a status >= 400
LoginRefused ==
    /\ last.op = "login"
    /\ Len(last.net) = 2
    /\ last.net[2].ok
    /\ last.net[2].status_code >= 400

\* the answer to the POST of login is HTML that holds the marker of
\* invalid credentials
MarkerInHtml ==
    /\ Contains(last.net[2].content_type, "text/html")
    /\ Contains(text(last.net[2]), InvalidCredentialsMarker)

\* C25: login raises for every response with a status >= 400:
\* ValidationError when the HTML body holds the invalid-credentials marker,
\* and an error of another class for every other such response.
C25_LoginFailuresDistinctByKind ==
    LoginRefused =>
        /\ last.out.kind = "raise"
        /\ MarkerInHtml => Raises("ValidationError")
        /\ ~MarkerInHtml => ~Raises("ValidationError")

\* the POST of logout was answered with a status >= 400
LogoutRefused ==
    /\ last.op = "logout"
    /\ Len(last.net) = 2
    /\ last.net[2].ok
    /\ last.net[2].status_code >= 400

\* C27: logout raises for every response with a status >= 400, whatever
\* the content type and the body of the response are.
C27_LogoutErrorsAlwaysRaise == LogoutRefused => last.out.kind = "raise"

\* the transport verb was answered 200 with a body that is JSON
AnsweredJson ==
    /\ Answered
    /\ last.net[1].status_code = 200
    /\ last.net[1].body.t # "text"

\* the body is an envelope whose status.code is "ok"
OkEnvelope ==
    /\ Enveloped
    /\ DictGet(StatusOfBody, "code", PyNone) = PyStr("ok")

\* C26: answered 200, a transport verb returns the response field of an
\* envelope whose status.code is "ok" (an empty dict when the envelope has
\* no response field), and returns unchanged a body that is not a dict or
\* has no status field.
C26_OkEnvelopeUnwrapped ==
    AnsweredJson =>
        /\ OkEnvelope
           => last.out = Return(DictGet(last.net[1].body, "response", EmptyDict))
        /\ (~IsDict(last.net[1].body) \/ ~HasKey(last.net[1].body, "status"))
           => last.out = Return(last.net[1].body)

\* a post answered 200 with {status: {code: "ok"}, response: X} returned X
C26_Witness ==
    /\ last.op = "post"
    /\ AnsweredJson
    /\ OkEnvelope
    /\ HasKey(last.net[1].body, "response")
    /\ last.out = Return(last.net[1].body.v["response"])
    /\ last.out.value # last.net[1].body

\* a get answered 200 with an "ok" envelope without response returned {}
C26_WitnessNoResponse ==
    /\ last.op = "get"
    /\ AnsweredJson
    /\ OkEnvelope
    /\ ~HasKey(last.net[1].body, "response")
    /\ last.out = Return(EmptyDict)

\* C28: whenever a request of a transport verb carries the injected _uid
\* (the configuration is in auth mode master), the Authorization header of
\* that request carries the master token.
C28_InjectionAgreesWithBearer ==
    (/\ client = "open"
     /\ last.op \in TransportVerbs
     /\ auth_type(config) = "master"
     /\ IsDict(last.sent[1].json)
     /\ HasKey(last.sent[1].json, "_uid"))
    => /\ "Authorization" \in DOMAIN last.sent[1].headers
       /\ last.sent[1].headers["Authorization"] = "Bearer " \o config.master_token.v

\* the args given to execute hold every name the descriptor of the tool
\* lists as required and only names it declares
ArgsConform ==
    /\ parameters[last.args.name].required \subseteq DOMAIN last.args.args
    /\ DOMAIN last.args.args \subseteq parameters[last.args.name].properties

\* C29: args that hold all the required names of a tool's descriptor and
\* only names it declares bind to the callable of the tool: execute does
\* not end with the error for invalid arguments of a failed binding.
C29_DeclaredArgsBind ==
    (Executing /\ KnownTool /\ ArgsConform)
    => /\ ArgsBind
       /\ last.body # RaiseError("TypeError", "missing or unexpected argument")

\* the args are well formed: a tag, when one is given, is not empty
WellFormed == "tag" \in DOMAIN last.args.args => Truthy(last.args.args.tag)

\* every request of the call was answered 200 with a JSON object none of
\* whose fields is null
AnsweredOk ==
    \A i \in 1..Len(last.net) :
        /\ last.net[i].ok
        /\ last.net[i].status_code = 200
        /\ IsDict(last.net[i].body)
        /\ \A k \in DOMAIN last.net[i].body.v : last.net[i].body.v[k] # PyNone

\* C30: execute of a tool of the dispatch table with well-formed args that
\* bind issues the request of the tool through a verb HTTPClient has, and
\* returns a result when the server answers 200 with JSON: it does not
\* fail before or instead of sending.
C30_ToolsUseTransportVerbs ==
    (Executing /\ KnownTool /\ ArgsBind /\ WellFormed)
    => /\ last.sent # <<>>
       /\ ~Raises("AttributeError")
       /\ AnsweredOk => last.out.kind = "return"

====
